---- MODULE Spec2Model ----
(***************************************************************************)
(* Caching / persistence / alignment core of backtest_frame_v2.            *)
(*                                                                         *)
(*   engine/storage.py       _hash_df, to_parquet_partition,               *)
(*                           save_processed_data                           *)
(*   engine/data_fetcher.py  _check_existing_data                          *)
(*   engine/aligner.py       align_financial_to_daily                      *)
(*                                                                         *)
(* Dates are day numbers (integers); a frame is a sequence of rows in      *)
(* in-memory order, each row a record [date, close].                       *)
(***************************************************************************)
EXTENDS Integers, Sequences, FiniteSets, TLC

VARIABLES
    fs,       \* the data/processed tree: path -> file
    last,     \* the operation that ran last on the store, with its outcome
    prev,     \* the operation that ran before it
    ncalls,   \* number of operations run so far
    req,      \* the request given to _check_existing_data
    chk,      \* what _check_existing_data returned, and at which line
    fin,      \* the disclosures given to align_financial_to_daily
    dates,    \* the calendar to align to
    aligned,  \* what align_financial_to_daily returned
    pc,       \* per pool worker: where it is in to_parquet_partition
    seen,     \* what the last reader of a partition file observed
    curated,  \* the curation side: config files, clock and the last pass
    build,    \* a run of build_data_warehouse.main: futures and success_count
    scoring,  \* the calls of the DataQualityFilter scoring functions made so far
    fetching  \* the call of fetch_daily_with_cache: what it consulted and returned

vars ==
    <<fs, last, prev, ncalls, req, chk, fin, dates, aligned, pc, seen, curated, build,
      scoring, fetching>>

-----------------------------------------------------------------------------
(* Bounds *)

MaxCalls == 2          \* operations per run of the store model
MaxStoreRows == 2      \* rows of a frame handed to the store
MaxGapSweep == 7       \* requested starts sweep 1..MaxGapSweep
MaxStartSweep == 3     \* stored starts sweep this many days past the tolerance
MaxEndSweep == 4       \* stored ends sweep over this many days
MaxStride == 2         \* stored frames have a row every 1..MaxStride days
MaxDay == 3            \* publish and calendar dates are 1..MaxDay
MaxDisclosures == 2    \* disclosures given to the aligner
MaxWorkers == 2        \* pool threads modelled (THREADS is 5)
MaxPoolCalls == 3      \* store calls per run of the pool model
MaxFiles == 2          \* partition files the curation scan finds
FullRows == 50         \* rows of a partition covering the whole window
ShortRows == 40        \* rows of a partition with too little history
WindowWeeks == 10      \* the configured window, in weeks
MaxPasses == 3         \* curation requests per run of the refresh model
MaxElapsed == 8        \* days the clock runs past the first request
MaxRuns == 2           \* runs of the build, the re-runs after an interruption included
ScoreRows == 3         \* rows behind the metrics given to the score function
MaxScoreCalls == 2     \* calls of the score function per run
ScenarioWeeks == 24    \* the window of the spec's scenario A, in weeks

(* Program constants *)

StartToleranceDays == 5
EndToleranceDays == 1
MinRows == 100
HexDigits == 6
DaysPerMonth == 30

(* Program constants of the curation; rates in percent, weights in percent  *)
(* (DataQualityFilter) and in tenths (UniverseFilter)                       *)

GapDays == 3
MinClosePct == 80
WCoverage == 30
WClose == 25
WVol == 15
WAmount == 15
WContinuity == 10
WFreshness == 5
MinQualityScore == 70
WCloseCoverage == 8
WVolCoverage == 1
WAmountCoverage == 1
MinCoverageRate == 65
MinCloseCoverage == 80
MaxUniverseSize == 150
AutoUpdateDays == 7

-----------------------------------------------------------------------------
(* Frames *)

Codes == {"510050.SH"}

Row(d, v) == [date |-> d, close |-> v]

Columns == <<"close">>

EmptyFrame == <<>>

DateSet(df) == {df[i].date : i \in 1..Len(df)}

\* index.min() / index.max() of a non-empty frame
IndexMin(df) == CHOOSE d \in DateSet(df) : \A e \in DateSet(df) : d <= e
IndexMax(df) == CHOOSE d \in DateSet(df) : \A e \in DateSet(df) : d >= e

Max2(a, b) == IF a >= b THEN a ELSE b
Min2(a, b) == IF a <= b THEN a ELSE b

-----------------------------------------------------------------------------
(* The processed tree *)

FlatPath(code) == <<"flat", 0, code>>
PartPath(ym, code) == <<"ym", ym, code>>

YearMonth(d) == d \div DaysPerMonth

Absent == [st |-> "absent", df |-> EmptyFrame]
Stored(df) == [st |-> "ok", df |-> df]
Corrupt == [st |-> "corrupt", df |-> EmptyFrame]

-----------------------------------------------------------------------------
(* _check_existing_data: the returned frame and the line that returned it *)

Ret(line, df) == [line |-> line, ret |-> df]

StartOk(start_gap) == start_gap <= StartToleranceDays

EndOk_strict(end_gap) == end_gap < EndToleranceDays

EndOk(end_gap) == end_gap <= EndToleranceDays

Between(df, lo, hi) == SelectSeq(df, LAMBDA r : r.date >= lo /\ r.date <= hi)

EnoughRows_strict(df) == Len(df) > MinRows

EnoughRows(df) == Len(df) >= MinRows

\* start is None: only the end is compared, the stored frame is returned whole
CheckFullHistory(existing_df, end_date) ==
    LET data_end == IndexMax(existing_df)
        end_gap == end_date - data_end
    IN  IF EndOk(end_gap) THEN Ret(77, existing_df) ELSE Ret(80, EmptyFrame)

\* start is given.  actual_start is assigned only under start_ok and end_ok,
\* and is read by the mask on every path: reading it unassigned raises into
\* the handler at line 113, which returns the empty frame at line 115.
CheckWindow(existing_df, start_date, end_date) ==
    LET data_start == IndexMin(existing_df)
        data_end == IndexMax(existing_df)
        start_gap == data_start - start_date
        end_gap == end_date - data_end
        start_ok == StartOk(start_gap)
        end_ok == EndOk(end_gap)
        actual_start_assigned == start_ok /\ end_ok
        actual_start == Max2(start_date, data_start)
        actual_end == Min2(end_date, data_end)
    IN  IF ~actual_start_assigned
        THEN Ret(115, EmptyFrame)
        ELSE LET filtered_df == Between(existing_df, actual_start, actual_end)
             IN  IF EnoughRows(filtered_df)
                 THEN Ret(107, filtered_df)
                 ELSE Ret(111, EmptyFrame)

CheckExistingData(file, rq, today) ==
    IF file.st = "absent" THEN Ret(49, EmptyFrame)
    ELSE IF file.st # "ok" THEN Ret(115, EmptyFrame)
    ELSE IF file.df = EmptyFrame THEN Ret(54, EmptyFrame)
    ELSE LET end_date == IF rq.hasEnd THEN rq.end ELSE today
         IN  IF ~rq.hasStart
             THEN CheckFullHistory(file.df, end_date)
             ELSE CheckWindow(file.df, rq.start, end_date)

-----------------------------------------------------------------------------
(* _hash_df: "<rows>_<columns>_<first HexDigits hex digits of the digest>" *)
(* The digest runs over the per-row hashes in in-memory row order.         *)

RowHash(r) == r.date * 31 + r.close

RECURSIVE Digest(_, _)
Digest(h, s) ==
    IF s = <<>> THEN h
    ELSE Digest((h * 65 + RowHash(Head(s))) % (16 ^ HexDigits), Tail(s))

HashDf(df) == <<Len(df), Len(Columns), Digest(7, df)>>

-----------------------------------------------------------------------------
(* to_parquet_partition / save_processed_data, as one call *)

\* the table read back without its date index
ReadTable_noindex(file) ==
    [i \in 1..Len(file.df) |-> Row(0, file.df[i].close)]

\* pq.read_table(path).to_pandas(): rows, index and order as written
ReadTable(file) == file.df

PartitionOf(df, name) == PartPath(YearMonth(df[Len(df)].date), name)

Op(op, code, df, path, outcome) ==
    [op |-> op, code |-> code, df |-> df, path |-> path, outcome |-> outcome]

NoOp == Op("none", "", EmptyFrame, <<>>, "none")

ToParquetPartition(df, name) ==
    LET path == PartitionOf(df, name)
    IN  IF fs[path].st # "absent" /\ fs[path].st # "ok"
        THEN \* pq.read_table raises out of the store
             /\ fs' = fs
             /\ last' = Op("save", name, df, path, "RAISED")
        ELSE IF fs[path].st = "ok" /\ HashDf(ReadTable(fs[path])) = HashDf(df)
        THEN /\ fs' = fs
             /\ last' = Op("save", name, df, path, "SKIPPED")
        ELSE /\ fs' = [fs EXCEPT ![path] = Stored(df)]
             /\ last' = Op("save", name, df, path, "WRITTEN")

-----------------------------------------------------------------------------
(* Inputs *)

StoreDates == (DaysPerMonth - 1)..(DaysPerMonth + 1)
CloseValues == {1, 2}
StoreRows == {Row(d, v) : d \in StoreDates, v \in CloseValues}

DistinctDates(df) ==
    \A i, j \in 1..Len(df) : i # j => df[i].date # df[j].date

\* non-empty frames with unique dates, in any in-memory row order
StoreFrames ==
    {df \in UNION {[1..n -> StoreRows] : n \in 1..MaxStoreRows} :
        DistinctDates(df)}

Months == {YearMonth(d) : d \in StoreDates}

Paths == {FlatPath(c) : c \in Codes}
           \cup {PartPath(m, c) : m \in Months, c \in Codes}

Request(hasStart, start, hasEnd, end, today) ==
    [hasStart |-> hasStart, start |-> start,
     hasEnd |-> hasEnd, end |-> end, today |-> today]

NoRequest == Request(FALSE, 0, FALSE, 0, 0)

Workers == 1..MaxWorkers

Idle(outcome) ==
    [st |-> "idle", df |-> EmptyFrame, path |-> <<>>, old |-> Absent,
     outcome |-> outcome]

Seen(path, file, overwrite, allowed) ==
    [path |-> path, st |-> file.st, df |-> file.df,
     overwrite |-> overwrite, allowed |-> allowed]

NotSeen == Seen(<<>>, Absent, FALSE, {})
NoCheck == Ret(0, EmptyFrame)

StoreRequests ==
    {Request(hs, IF hs THEN DaysPerMonth - 1 ELSE 0,
             he, IF he THEN DaysPerMonth + 1 ELSE 0, DaysPerMonth + 3) :
        hs \in BOOLEAN, he \in BOOLEAN}

-----------------------------------------------------------------------------
(* align_financial_to_daily *)

NaN == 0

Metrics == {"roe_ttm", "pb"}

Disclosure(p, roe, pb) == [pub_date |-> p, roe_ttm |-> roe, pb |-> pb]

Fin(cols, rows) == [columns |-> cols, rows |-> rows]

NoFin == Fin({}, <<>>)

Frame(status, cols) == [status |-> status, cols |-> cols]

NotAligned == Frame("none", <<>>)

\* fin.empty: no rows
FinEmpty(f) == f.rows = <<>>

RECURSIVE InsertByPub(_, _)
InsertByPub(r, s) ==
    IF s = <<>> THEN <<r>>
    ELSE IF r.pub_date < Head(s).pub_date THEN <<r>> \o s
    ELSE <<Head(s)>> \o InsertByPub(r, Tail(s))

\* fin.sort_values("pub_date")
RECURSIVE SortByPub(_)
SortByPub(rows) ==
    IF rows = <<>> THEN <<>>
    ELSE InsertByPub(rows[Len(rows)], SortByPub(SubSeq(rows, 1, Len(rows) - 1)))

Fill(cur, before) == IF cur = NaN THEN before ELSE cur

\* .ffill() down the sorted disclosures: a missing metric takes the value of
\* the row above
FfillRows_none(rows, above) == rows

RECURSIVE FfillRows(_, _)
FfillRows(rows, above) ==
    IF rows = <<>> THEN <<>>
    ELSE LET r == Head(rows)
             filled == Disclosure(r.pub_date,
                                  Fill(r.roe_ttm, above.roe_ttm),
                                  Fill(r.pb, above.pb))
         IN  <<filled>> \o FfillRows(Tail(rows), filled)

UniquePubDates(rows) ==
    \A i, j \in 1..Len(rows) : i # j => rows[i].pub_date # rows[j].pub_date

\* series.reindex(dates): the value published exactly on d, else missing
Reindex(rows, col, cal) ==
    [i \in 1..Len(cal) |->
        IF \E k \in 1..Len(rows) : rows[k].pub_date = cal[i]
        THEN LET k == CHOOSE k \in 1..Len(rows) : rows[k].pub_date = cal[i]
             IN  rows[k][col]
        ELSE NaN]

\* .ffill() along the calendar
RECURSIVE FfillSeries(_, _)
FfillSeries(s, before) ==
    IF s = <<>> THEN <<>>
    ELSE <<Fill(Head(s), before)>> \o FfillSeries(Tail(s), Fill(Head(s), before))

Shift1_none(s) == s

\* .shift(1): every value moves one calendar position later
Shift1(s) ==
    [i \in 1..Len(s) |-> IF i = 1 THEN NaN ELSE s[i - 1]]

AllNull(cal) == [i \in 1..Len(cal) |-> NaN]

AlignColumn(rows, col, cal) == Shift1(FfillSeries(Reindex(rows, col, cal), NaN))

AlignFinancialToDaily(f, cal) ==
    IF FinEmpty(f)
    THEN Frame("ok", [col \in Metrics |-> AllNull(cal)])
    ELSE LET rows == FfillRows(SortByPub(f.rows), Disclosure(0, NaN, NaN))
         IN  IF f.columns # {} /\ ~UniquePubDates(rows)
             THEN \* reindex of a series with duplicate labels raises
                  Frame("raised", <<>>)
             ELSE Frame("ok", [col \in Metrics |->
                                 IF col \in f.columns
                                 THEN AlignColumn(rows, col, cal)
                                 ELSE AllNull(cal)])

\* price_data.join(aligned_fin, how='left'): the price frame with the metric
\* columns added
Joined(a) == IF a.status = "ok" THEN Frame("joined", a.cols) ELSE a

\* align_data: with no disclosures the price frame itself is returned
AlignData(price_index, fin_data) ==
    IF FinEmpty(fin_data)
    THEN Frame("price_data", <<>>)
    ELSE Joined(AlignFinancialToDaily(fin_data, price_index))

-----------------------------------------------------------------------------
(* build_data_warehouse.main: the state of a run *)

Build(run, codes, fetch, next, job, result, collected, success_count, main) ==
    [run |-> run, codes |-> codes, fetch |-> fetch, next |-> next, job |-> job,
     result |-> result, collected |-> collected,
     success_count |-> success_count, main |-> main]

NoBuild == Build(0, <<>>, <<>>, 1, <<>>, <<>>, {}, 0, "none")

-----------------------------------------------------------------------------
(* Calls of DataQualityFilter._calculate_quality_score: the metrics given,  *)
(* the score returned, and the call before it                               *)

Scoring(m, score, before, n) ==
    [m |-> m, score |-> score, before |-> before, ncalls |-> n]

NoScoring == Scoring(<<>>, 0, <<>>, 0)

-----------------------------------------------------------------------------
(* A call of fetch_daily_with_cache: whether it consulted the cache, how    *)
(* often it called fetch_daily, and the frame it returned                   *)

Fetching(code, rq, force_refresh, checked, fetch_calls, ret, from) ==
    [code |-> code, rq |-> rq, force_refresh |-> force_refresh,
     checked |-> checked, fetch_calls |-> fetch_calls, ret |-> ret, from |-> from]

NoFetching == Fetching("", <<>>, FALSE, FALSE, 0, <<>>, "none")

-----------------------------------------------------------------------------
(* Curation: DataQualityFilter (scripts/generate_high_quality_universe.py)  *)
(* and UniverseFilter (engine/universe_filter.py) scanning the partitions   *)
(* that glob returns.  A partition row is [date, close, vol, amount]; dates *)
(* are day numbers with day 1 a Monday.  Rates are kept as exact fractions  *)
(* and the composite score of DataQualityFilter in hundredths of a point.   *)

CurCodes == {"510050.SH", "510300.SH"}

QRow(d, c, v, a) == [date |-> d, close |-> c, vol |-> v, amount |-> a]

IsBusinessDay(d) == (d % 7) \notin {6, 0}

BDateRange(lo, hi) == {d \in lo..hi : IsBusinessDay(d)}

Parquet(code, st, df) == [code |-> code, st |-> st, df |-> df]

InWindow(df, lo, hi) == SelectSeq(df, LAMBDA r : r.date >= lo /\ r.date <= hi)

NotNa(df, col) == Cardinality({i \in 1..Len(df) : df[i][col] # NaN})

QDates(df) == {df[i].date : i \in 1..Len(df)}

\* the dates followed by a gap of more than GapDays days
GapStarts(D) ==
    {d \in D : /\ \E x \in D : x > d
               /\ \A k \in 1..GapDays : d + k \notin D}

NextDate(D, d) == CHOOSE x \in D : x > d /\ \A y \in D : y > d => y >= x

DateGaps(df) ==
    LET D == QDates(df)
    IN  {<<d, NextDate(D, d)>> : d \in GapStarts(D)}

MaxGap(gaps) ==
    LET G == {g[2] - g[1] : g \in gaps}
    IN  IF G = {} THEN 0 ELSE CHOOSE x \in G : \A y \in G : x >= y

QualityMetrics(df, target_days_count, now) ==
    LET D == QDates(df)
        last_date == CHOOSE d \in D : \A e \in D : d >= e
        first_date == CHOOSE d \in D : \A e \in D : d <= e
        date_gaps == DateGaps(df)
    IN  [available_days |-> Len(df),
         target_days_count |-> target_days_count,
         close_notna |-> NotNa(df, "close"),
         vol_notna |-> NotNa(df, "vol"),
         amount_notna |-> NotNa(df, "amount"),
         max_gap_days |-> MaxGap(date_gaps),
         gap_count |-> Cardinality(date_gaps),
         days_since_last_update |-> now - last_date,
         date_range |-> <<first_date, last_date>>]

\* a / b >= pct / 100, with a / b read as 0 when b = 0
RateAtLeast(a, b, pct) == IF b > 0 THEN a * 100 >= pct * b ELSE 0 >= pct

ContinuityScore_swapped(max_gap_days) ==
    IF max_gap_days = 0 THEN 100
    ELSE IF max_gap_days <= 7 THEN 60
    ELSE IF max_gap_days <= 30 THEN 80
    ELSE Max2(0, 60 - max_gap_days)

ContinuityScore(max_gap_days) ==
    IF max_gap_days = 0 THEN 100
    ELSE IF max_gap_days <= 7 THEN 80
    ELSE IF max_gap_days <= 30 THEN 60
    ELSE Max2(0, 60 - max_gap_days)

FreshnessScore_strict(days_since_last_update) ==
    IF days_since_last_update < 3 THEN 100
    ELSE IF days_since_last_update <= 7 THEN 80
    ELSE IF days_since_last_update <= 30 THEN 60
    ELSE Max2(0, 60 - days_since_last_update)

FreshnessScore(days_since_last_update) ==
    IF days_since_last_update <= 3 THEN 100
    ELSE IF days_since_last_update <= 7 THEN 80
    ELSE IF days_since_last_update <= 30 THEN 60
    ELSE Max2(0, 60 - days_since_last_update)

RoundDiv(n, d) == (2 * n + d) \div (2 * d)

\* round(total_score, 2), in hundredths of a point
CalculateQualityScore(m) ==
    LET a == m.available_days
        t == m.target_days_count
        td == IF t > 0 THEN t ELSE 1
        coverage == IF t > 0 THEN WCoverage * Min2(100 * a, 100 * t) * a ELSE 0
        fields == (WClose * m.close_notna + WVol * m.vol_notna
                   + WAmount * m.amount_notna) * 100 * td
        steps == (WContinuity * ContinuityScore(m.max_gap_days)
                  + WFreshness * FreshnessScore(m.days_since_last_update)) * td * a
    IN  RoundDiv(coverage + fields + steps, td * a)

Score(num, den) == [num |-> num, den |-> den]

ScoreGE(x, y) == x.num * y.den >= y.num * x.den

MeetsRequirements_anyclose(m, th) ==
    /\ RateAtLeast(m.available_days, m.target_days_count, th.min_coverage_rate)
    /\ m.available_days >= th.min_history_days

MeetsRequirements(m, th) ==
    /\ RateAtLeast(m.available_days, m.target_days_count, th.min_coverage_rate)
    /\ m.available_days >= th.min_history_days
    /\ RateAtLeast(m.close_notna, m.available_days, MinClosePct)

Scored(code, score, meets, m) ==
    [code |-> code, quality_score |-> score, meets_requirements |-> meets, m |-> m]

\* dict[code] = entry: a new key goes last, an existing key keeps its place
DictPut(d, e) ==
    IF \E i \in 1..Len(d) : d[i].code = e.code
    THEN [i \in 1..Len(d) |-> IF d[i].code = e.code THEN e ELSE d[i]]
    ELSE Append(d, e)

Scan(scores, log) == [scores |-> scores, log |-> log]

RECURSIVE EvaluateDataQuality(_, _, _, _, _, _)
EvaluateDataQuality(files, i, universe, th, now, acc) ==
    IF i > Len(files) THEN acc
    ELSE
        LET f == files[i]
            df_filtered == InWindow(f.df, th.start_date, th.end_date)
            m == QualityMetrics(df_filtered,
                     Cardinality(BDateRange(th.start_date, th.end_date)), now)
            next ==
                IF f.code \notin universe THEN acc
                ELSE IF f.st # "ok" THEN Scan(acc.scores, Append(acc.log, i))
                ELSE IF df_filtered = <<>> THEN acc
                ELSE Scan(DictPut(acc.scores,
                              Scored(f.code, Score(CalculateQualityScore(m), 100),
                                     MeetsRequirements(m, th), m)),
                          acc.log)
        IN  EvaluateDataQuality(files, i + 1, universe, th, now, next)

Info(code, score, m) == [code |-> code, overall_score |-> score, m |-> m]

InfoPut(d, e) ==
    IF \E i \in 1..Len(d) : d[i].code = e.code
    THEN [i \in 1..Len(d) |-> IF d[i].code = e.code THEN e ELSE d[i]]
    ELSE Append(d, e)

FieldsQuality(df) ==
    [total_days |-> Len(df),
     close_valid |-> NotNa(df, "close"),
     vol_valid |-> NotNa(df, "vol"),
     amount_valid |-> NotNa(df, "amount")]

\* close_coverage * 0.8 + vol_coverage * 0.1 + amount_coverage * 0.1
OverallScore(m) ==
    Score(WCloseCoverage * m.close_valid + WVolCoverage * m.vol_valid
          + WAmountCoverage * m.amount_valid, 10 * m.total_days)

RECURSIVE AnalyzeDataQuality(_, _, _, _, _)
AnalyzeDataQuality(files, i, universe, th, acc) ==
    IF i > Len(files) THEN acc
    ELSE
        LET f == files[i]
            df_period == InWindow(f.df, th.start_date, th.end_date)
            m == FieldsQuality(df_period)
            next ==
                IF f.code \notin universe THEN acc
                ELSE IF f.st # "ok" THEN Scan(acc.scores, Append(acc.log, i))
                ELSE IF f.df = <<>> \/ df_period = <<>> THEN acc
                ELSE Scan(InfoPut(acc.scores, Info(f.code, OverallScore(m), m)),
                          acc.log)
        IN  AnalyzeDataQuality(files, i + 1, universe, th, next)

\* list.sort(key=score, reverse=True): descending, equal scores keep their order
SortDesc(s, key) ==
    LET rank(i) ==
            Cardinality({j \in 1..Len(s) :
                \/ ~ScoreGE(key[i], key[j])
                \/ j < i /\ ScoreGE(key[i], key[j]) /\ ScoreGE(key[j], key[i])})
    IN  [r \in 1..Len(s) |-> s[CHOOSE i \in 1..Len(s) : rank(i) = r - 1]]

QualityScoreOf(e) == e.quality_score
OverallScoreOf(e) == e.overall_score

NoLimit == 0 - 1

\* if max_assets and len(qualified_assets) > max_assets: qualified_assets[:max_assets]
LimitAssets_slice(qualified, max_assets) ==
    IF max_assets # NoLimit
    THEN SubSeq(qualified, 1, Min2(max_assets, Len(qualified)))
    ELSE qualified

LimitAssets(qualified, max_assets) ==
    IF max_assets # NoLimit /\ max_assets # 0 /\ Len(qualified) > max_assets
    THEN SubSeq(qualified, 1, max_assets)
    ELSE qualified

\* candidates[:max_universe_size]
Truncate(candidates, max_universe_size) ==
    SubSeq(candidates, 1, Min2(max_universe_size, Len(candidates)))

TsCodes(rows) == [i \in 1..Len(rows) |-> rows[i].code]

Pass(entry, th, rescored, scan, qualified, selected, ret, wrote) ==
    [entry |-> entry, th |-> th, rescored |-> rescored, scan |-> scan,
     qualified |-> qualified, selected |-> selected, ret |-> ret,
     wrote |-> wrote, loaded |-> <<>>, at |-> 0]

NoScan == Scan(<<>>, <<>>)

NoPass == Pass("none", <<>>, FALSE, NoScan, <<>>, <<>>, "none", {})

\* DataQualityFilter.generate_high_quality_universe, without its file writes
QualifiedAssets(scores, th) ==
    LET keep(e) ==
            /\ e.meets_requirements
            /\ ScoreGE(e.quality_score, Score(th.min_quality_score, 1))
        kept == SelectSeq(scores, keep)
    IN  SortDesc(kept, [i \in 1..Len(kept) |-> QualityScoreOf(kept[i])])

GenerateByScript(files, universe, th, now) ==
    LET scan == EvaluateDataQuality(files, 1, universe, th, now, NoScan)
        qualified == QualifiedAssets(scan.scores, th)
        selected == LimitAssets(qualified, th.max_assets)
    IN  IF scan.scores = <<>>
        THEN Pass("DataQualityFilter", th, TRUE, scan, qualified, qualified,
                  "ZeroDivisionError", {})
        ELSE IF selected # <<>>
        THEN Pass("DataQualityFilter", th, TRUE, scan, qualified, selected,
                  "qualified_assets", {"universe", "detailed"})
        ELSE Pass("DataQualityFilter", th, TRUE, scan, qualified, selected,
                  "[]", {})

\* UniverseFilter.filter_high_quality_universe
Candidates(quality_info, th) ==
    LET keep(e) ==
            /\ e.m.total_days >= th.min_trading_days
            /\ RateAtLeast(e.m.close_valid, e.m.total_days, th.min_close_coverage)
            /\ RateAtLeast(e.overall_score.num, e.overall_score.den,
                           th.min_coverage_rate)
        kept == SelectSeq(quality_info, keep)
    IN  SortDesc(kept, [i \in 1..Len(kept) |-> OverallScoreOf(kept[i])])

\* UniverseFilter.generate_high_quality_universe, without its file write
GenerateByFilter(entry, files, universe, th) ==
    LET scan == AnalyzeDataQuality(files, 1, universe, th, NoScan)
        candidates == Candidates(scan.scores, th)
        selected == Truncate(candidates, th.max_universe_size)
    IN  IF selected = <<>>
        THEN Pass(entry, th, TRUE, scan, candidates, selected, "", {})
        ELSE Pass(entry, th, TRUE, scan, candidates, selected, "output_path",
                  {"universe"})

\* a csv under config/: its rows, its mtime and the pass that wrote it
Csv(rows, mtime, by) == [exists |-> TRUE, rows |-> rows, mtime |-> mtime, by |-> by]

NoCsv == [exists |-> FALSE, rows |-> <<>>, mtime |-> 0, by |-> 0]

DetailedRow(e) == [code |-> e.code, quality_score |-> e.quality_score]

Curation(files, universe, config, now, hq, detailed, pass, npass, budget) ==
    [files |-> files, universe |-> universe, config |-> config, now |-> now,
     hq |-> hq, detailed |-> detailed, pass |-> pass, npass |-> npass,
     budget |-> budget]

\* set(universe_df['ts_code'].tolist())
UniverseCodes(universe) == {universe[i] : i \in 1..Len(universe)}

\* the arguments of the script's entry point, with the window of the config
ScriptArgs(config, args) ==
    [start_date |-> config.start_date, end_date |-> config.end_date,
     min_coverage_rate |-> args.min_coverage_rate,
     min_history_days |-> args.min_history_days,
     min_quality_score |-> args.min_quality_score,
     max_assets |-> args.max_assets]

NoCur == Curation(<<>>, <<>>, <<>>, 0, NoCsv, NoCsv, NoPass, 0, 0)

\* the state after a pass: lines 289-302 of the script, 245-248 of the filter
Publish(c, pass) ==
    [c EXCEPT
        !.pass = [pass EXCEPT !.at = c.now],
        !.npass = c.npass + 1,
        !.hq = IF "universe" \in pass.wrote
               THEN Csv(TsCodes(pass.selected), c.now, c.npass + 1)
               ELSE c.hq,
        !.detailed = IF "detailed" \in pass.wrote
                     THEN Csv([i \in 1..Len(pass.selected) |->
                                  DetailedRow(pass.selected[i])],
                              c.now, c.npass + 1)
                     ELSE c.detailed]

IsFresh_inclusive(c) ==
    c.hq.exists /\ c.now - c.hq.mtime <= c.config.auto_update_days

\* high_quality_path.exists() and file_age < auto_update_days * 24 * 3600
IsFresh(c) ==
    c.hq.exists /\ c.now - c.hq.mtime < c.config.auto_update_days

AutoUpdateUniverse(c, entry) ==
    IF IsFresh(c)
    THEN Pass(entry, c.config, FALSE, NoScan, <<>>, <<>>, "True", {})
    ELSE LET p == GenerateByFilter(entry, c.files, UniverseCodes(c.universe),
                                   c.config)
         IN  [p EXCEPT !.ret = IF p.ret = "" THEN "False" ELSE "True"]

\* DataInterface._load_universe with the filter enabled
LoadUniverse(c) ==
    IF c.hq.exists THEN c.hq.rows ELSE c.universe

\* DataInterface.__init__ with universe_filter.enabled
AutoUpdateUniverseIfNeeded(c) ==
    LET p == IF IsFresh(c)
             THEN Pass("DataInterface", c.config, FALSE, NoScan, <<>>, <<>>,
                       "return", {})
             ELSE AutoUpdateUniverse(c, "DataInterface")
        after == Publish(c, p)
    IN  [after EXCEPT !.pass.loaded = LoadUniverse(after)]

RunScript(ths) ==
    /\ curated.npass < curated.budget
    /\ \E args \in ths :
          curated' = Publish(curated, GenerateByScript(curated.files, UniverseCodes(curated.universe),
                                               ScriptArgs(curated.config, args), curated.now))
    /\ UNCHANGED <<fs, last, prev, ncalls, req, chk, fin, dates, aligned, pc, seen,
                   build,
                   scoring, fetching>>

RunFilter(configs) ==
    /\ curated.npass < curated.budget
    /\ \E config \in configs :
          curated' = Publish([curated EXCEPT !.config = config],
                         GenerateByFilter("UniverseFilter", curated.files,
                                          UniverseCodes(curated.universe), config))
    /\ UNCHANGED <<fs, last, prev, ncalls, req, chk, fin, dates, aligned, pc, seen,
                   build,
                   scoring, fetching>>

RunAutoUpdate ==
    /\ curated.npass < curated.budget
    /\ curated' = Publish(curated, AutoUpdateUniverse(curated, "auto_update_universe"))
    /\ UNCHANGED <<fs, last, prev, ncalls, req, chk, fin, dates, aligned, pc, seen,
                   build,
                   scoring, fetching>>

NewDataInterface ==
    /\ curated.npass < curated.budget
    /\ curated' = AutoUpdateUniverseIfNeeded(curated)
    /\ UNCHANGED <<fs, last, prev, ncalls, req, chk, fin, dates, aligned, pc, seen,
                   build,
                   scoring, fetching>>

-----------------------------------------------------------------------------
(* Inputs of the curation *)

\* the i-th business day, day 1 being the first
BDay(i) == 7 * ((i - 1) \div 5) + ((i - 1) % 5) + 1

\* rows on consecutive business days from the k0-th on, with `hole` business
\* days missing after the first half; the first nc rows have no close and the
\* first nv rows neither vol nor amount
QFrame(k0, rows, hole, nc, nv) ==
    [j \in 1..rows |->
        QRow(BDay(k0 + j - 1 + (IF j > rows \div 2 THEN hole ELSE 0)),
             IF j <= nc THEN NaN ELSE 1,
             IF j <= nv THEN NaN ELSE 1,
             IF j <= nv THEN NaN ELSE 1)]

WindowStart == 1
WindowEnd == 7 * (WindowWeeks - 1) + 5
WindowBDays == 5 * WindowWeeks

QFrames ==
    {QFrame(1, FullRows, 0, 0, 0),
     QFrame(1, ShortRows, 0, 0, 0),
     QFrame(1, FullRows, 0, FullRows \div 5, 0),
     QFrame(1, FullRows, 0, FullRows \div 5 + 1, 0),
     QFrame(1, FullRows, 0, 0, FullRows),
     QFrame(1, ShortRows, FullRows - ShortRows, 0, 0),
     QFrame(WindowBDays + 1, 5, 0, 0, 0)}

\* the partitions of the second instrument: a full and a short one
PeerFrames == {QFrame(1, FullRows, 0, 0, 0), QFrame(1, ShortRows, 0, 0, 0)}

QFiles ==
    {Parquet("510050.SH", "ok", df) : df \in QFrames}
        \cup {Parquet("510300.SH", "ok", df) : df \in PeerFrames}
        \cup {Parquet(c, "corrupt", <<>>) : c \in CurCodes}

SeqsUpTo(S, n) == UNION {[1..k -> S] : k \in 1..n}

UniverseFile == <<"510050.SH", "510300.SH">>

FilterConfig(min_trading_days, max_universe_size) ==
    [start_date |-> WindowStart, end_date |-> WindowEnd,
     min_coverage_rate |-> MinCoverageRate,
     min_close_coverage |-> MinCloseCoverage,
     min_trading_days |-> min_trading_days,
     max_universe_size |-> max_universe_size,
     auto_update_days |-> AutoUpdateDays]

QConfigs ==
    {FilterConfig(FullRows, n) : n \in {0, 1, MaxUniverseSize}}

QArgs ==
    [min_coverage_rate : {70, 90},
     min_history_days : {ShortRows - 10, FullRows},
     min_quality_score : {MinQualityScore, 95},
     max_assets : {NoLimit, 0, 1}]

InitQualify ==
    /\ fs = [p \in Paths |-> Absent]
    /\ last = NoOp
    /\ prev = NoOp
    /\ ncalls = 0
    /\ req = NoRequest
    /\ chk = NoCheck
    /\ fin = NoFin
    /\ dates = <<>>
    /\ aligned = NotAligned
    /\ pc = [w \in Workers |-> Idle("none")]
    /\ seen = NotSeen
    /\ \E files \in SeqsUpTo(QFiles, MaxFiles) :
          curated = Curation(files, UniverseFile, FilterConfig(FullRows, MaxUniverseSize),
                         WindowEnd + 3, NoCsv, NoCsv, NoPass, 0, 1)
    /\ build = NoBuild
    /\ scoring = NoScoring
    /\ fetching = NoFetching

NextQualify == RunScript(QArgs) \/ RunFilter(QConfigs)

SpecQualify == InitQualify /\ [][NextQualify]_vars

-----------------------------------------------------------------------------
(* The refresh policy: several curation requests over the same tree, with    *)
(* time passing in between                                                   *)

RFresh == QFrame(WindowBDays - 4, 5, 0, 0, 0)
RShort == QFrame(WindowBDays - 4, 3, 0, 0, 0)

RTrees ==
    {<<Parquet("510050.SH", "ok", RFresh), Parquet("510300.SH", "ok", RShort)>>,
     <<Parquet("510050.SH", "corrupt", <<>>), Parquet("510300.SH", "ok", RFresh)>>,
     <<Parquet("510300.SH", "ok", RShort), Parquet("510300.SH", "ok", RFresh)>>}

\* the day of the first request: the data ends three days before
FirstRequestDay == WindowEnd + 3

RConfigs == {FilterConfig(d, n) : d \in {3, 6}, n \in {1, MaxUniverseSize}}

RArgs ==
    [min_coverage_rate : {5},
     min_history_days : {3, 6},
     min_quality_score : {MinQualityScore},
     max_assets : {NoLimit}]

\* time passes between two curation requests
ClockSteps == {AutoUpdateDays \div 2, AutoUpdateDays - AutoUpdateDays \div 2}

Tick ==
    /\ curated.npass < curated.budget
    /\ \E d \in ClockSteps :
          /\ curated.now + d <= FirstRequestDay + MaxElapsed
          /\ curated' = [curated EXCEPT !.now = curated.now + d]
    /\ UNCHANGED <<fs, last, prev, ncalls, req, chk, fin, dates, aligned, pc, seen,
                   build,
                   scoring, fetching>>

InitRefresh ==
    /\ fs = [p \in Paths |-> Absent]
    /\ last = NoOp
    /\ prev = NoOp
    /\ ncalls = 0
    /\ req = NoRequest
    /\ chk = NoCheck
    /\ fin = NoFin
    /\ dates = <<>>
    /\ aligned = NotAligned
    /\ pc = [w \in Workers |-> Idle("none")]
    /\ seen = NotSeen
    /\ \E files \in RTrees, config \in RConfigs :
          curated = Curation(files, UniverseFile, config, FirstRequestDay,
                         NoCsv, NoCsv, NoPass, 0, MaxPasses)
    /\ build = NoBuild
    /\ scoring = NoScoring
    /\ fetching = NoFetching

NextRefresh ==
    \/ RunScript(RArgs)
    \/ RunFilter({curated.config})
    \/ RunAutoUpdate
    \/ NewDataInterface
    \/ Tick

SpecRefresh == InitRefresh /\ [][NextRefresh]_vars

-----------------------------------------------------------------------------
(* The scoring functions on their own: _calculate_quality_score over a      *)
(* sweep of metrics, and one-partition passes over a scenario window        *)

\* the dict _calculate_quality_metrics returns, for ScoreRows rows
MetricsOf(t, c, v, a, gap, days) ==
    [available_days |-> ScoreRows,
     target_days_count |-> t,
     close_notna |-> c,
     vol_notna |-> v,
     amount_notna |-> a,
     max_gap_days |-> gap,
     gap_count |-> IF gap = 0 THEN 0 ELSE 1,
     days_since_last_update |-> days,
     date_range |-> <<1, 1 + gap>>]

\* the values on both sides of every branch of the two step scores
GapSweep == {0, 1, 7, 8, 30, 31, 59, 60, 61}
AgeSweep == {0, 3, 4, 7, 8, 30, 31, 60, 61}
TargetSweep == {0, ScoreRows - 1, ScoreRows + 1}
CountSweep == 0..ScoreRows
VolSweep == {0, ScoreRows}
AmountSweep == {0, ScoreRows}

ScoreInputs ==
    {MetricsOf(t, c, v, a, gap, days) :
        t \in TargetSweep, c \in CountSweep, v \in VolSweep, a \in AmountSweep,
        gap \in GapSweep, days \in AgeSweep}

\* the metrics that differ from m in one sub-metric
Neighbours(m) ==
    ({[m EXCEPT !.target_days_count = t] : t \in TargetSweep}
        \cup {[m EXCEPT !.close_notna = c] : c \in CountSweep}
        \cup {[m EXCEPT !.vol_notna = v] : v \in VolSweep}
        \cup {[m EXCEPT !.amount_notna = a] : a \in AmountSweep}
        \cup {[m EXCEPT !.max_gap_days = g, !.gap_count = IF g = 0 THEN 0 ELSE 1,
                        !.date_range = <<1, 1 + g>>] : g \in GapSweep}
        \cup {[m EXCEPT !.days_since_last_update = d] : d \in AgeSweep})
      \ {m}

ScenarioStart == WindowStart
ScenarioEnd == 7 * (ScenarioWeeks - 1) + 5
ScenarioRows == 5 * ScenarioWeeks

ScenarioConfig ==
    [start_date |-> ScenarioStart, end_date |-> ScenarioEnd,
     min_coverage_rate |-> MinCoverageRate,
     min_close_coverage |-> MinCloseCoverage,
     min_trading_days |-> ScenarioRows,
     max_universe_size |-> MaxUniverseSize,
     auto_update_days |-> AutoUpdateDays]

\* full partitions with the first nv rows lacking vol and amount, and short
\* series with and without a hole
ScenarioFrames ==
    {QFrame(1, ScenarioRows, 0, 0, nv) : nv \in {0, ScenarioRows \div 2, ScenarioRows}}
        \cup {QFrame(1, rows, hole, 0, 0) : rows \in {2, 6}, hole \in {0, 1, 5}}

ScenarioNows == {ScenarioEnd, ScenarioEnd + 3, ScenarioEnd + 8, ScenarioEnd + 61}

\* the defaults of generate_high_quality_universe and the arguments of main
ScenarioArgs ==
    {[min_coverage_rate |-> 70, min_history_days |-> 100,
      min_quality_score |-> MinQualityScore, max_assets |-> NoLimit],
     [min_coverage_rate |-> 60, min_history_days |-> 50,
      min_quality_score |-> 60, max_assets |-> 100]}

InitScore ==
    /\ fs = [p \in Paths |-> Absent]
    /\ last = NoOp
    /\ prev = NoOp
    /\ ncalls = 0
    /\ req = NoRequest
    /\ chk = NoCheck
    /\ fin = NoFin
    /\ dates = <<>>
    /\ aligned = NotAligned
    /\ pc = [w \in Workers |-> Idle("none")]
    /\ seen = NotSeen
    /\ build = NoBuild
    /\ fetching = NoFetching
    /\ \/ /\ curated = NoCur
          /\ \E m \in ScoreInputs : scoring = Scoring(m, 0, <<>>, 0)
       \/ /\ \E df \in ScenarioFrames, now \in ScenarioNows :
                curated = Curation(<<Parquet("510050.SH", "ok", df)>>, UniverseFile,
                                   ScenarioConfig, now, NoCsv, NoCsv, NoPass, 0, 1)
          /\ scoring = NoScoring

\* score = self._calculate_quality_score(metrics); a later call is given
\* metrics that differ from the last ones in one sub-metric
CalculateQualityScoreCall ==
    /\ scoring.m # <<>>
    /\ scoring.ncalls < MaxScoreCalls
    /\ \E m \in IF scoring.ncalls = 0 THEN {scoring.m} ELSE Neighbours(scoring.m) :
          scoring' = Scoring(m, CalculateQualityScore(m),
                             IF scoring.ncalls = 0 THEN <<>>
                             ELSE [m |-> scoring.m, score |-> scoring.score],
                             scoring.ncalls + 1)
    /\ UNCHANGED <<fs, last, prev, ncalls, req, chk, fin, dates, aligned, pc, seen,
                   curated, build, fetching>>

NextScore == CalculateQualityScoreCall \/ RunScript(ScenarioArgs)

SpecScore == InitScore /\ [][NextScore]_vars

-----------------------------------------------------------------------------
(* Inputs of the aligner *)

RoeValues == {NaN, 1, 2}
PbValues == {NaN, 1}

DisclosuresOver(cols) ==
    {Disclosure(p, roe, pb) :
        p \in 1..MaxDay,
        roe \in IF "roe_ttm" \in cols THEN RoeValues ELSE {NaN},
        pb \in IF "pb" \in cols THEN PbValues ELSE {NaN}}

Fins ==
    UNION {{Fin(cols, rows) :
              rows \in UNION {[1..n -> DisclosuresOver(cols)] :
                                 n \in 0..MaxDisclosures}} :
           cols \in SUBSET Metrics}

RECURSIVE Ascending(_, _)
Ascending(S, from) ==
    IF S = {} THEN <<>>
    ELSE IF from \in S THEN <<from>> \o Ascending(S \ {from}, from + 1)
    ELSE Ascending(S, from + 1)

\* trading calendars: non-empty, strictly increasing
Calendars == {Ascending(S, 1) : S \in (SUBSET (1..MaxDay)) \ {{}}}

InitAlign ==
    /\ fs = [p \in Paths |-> Absent]
    /\ last = NoOp
    /\ prev = NoOp
    /\ ncalls = 0
    /\ req = NoRequest
    /\ chk = NoCheck
    /\ fin \in Fins
    /\ dates \in Calendars
    /\ aligned = NotAligned
    /\ pc = [w \in Workers |-> Idle("none")]
    /\ seen = NotSeen
    /\ curated = NoCur
    /\ build = NoBuild
    /\ scoring = NoScoring
    /\ fetching = NoFetching

Align ==
    /\ aligned = NotAligned
    /\ aligned' = AlignFinancialToDaily(fin, dates)
    /\ UNCHANGED <<fs, last, prev, ncalls, req, chk, fin, dates, pc, seen, curated,
                   build,
                   scoring, fetching>>

AlignDataCall ==
    /\ aligned = NotAligned
    /\ aligned' = AlignData(dates, fin)
    /\ UNCHANGED <<fs, last, prev, ncalls, req, chk, fin, dates, pc, seen, curated,
                   build,
                   scoring, fetching>>

NextAlign == Align \/ AlignDataCall

SpecAlign == InitAlign /\ [][NextAlign]_vars

-----------------------------------------------------------------------------
(* The store, one call at a time *)

InitStore ==
    /\ fs \in [Paths -> {Absent, Corrupt}]
    /\ last = NoOp
    /\ prev = NoOp
    /\ ncalls = 0
    /\ req = NoRequest
    /\ chk = NoCheck
    /\ fin = NoFin
    /\ dates = <<>>
    /\ aligned = NotAligned
    /\ pc = [w \in Workers |-> Idle("none")]
    /\ seen = NotSeen
    /\ curated = NoCur
    /\ build = NoBuild
    /\ scoring = NoScoring
    /\ fetching = NoFetching

SaveProcessedData ==
    /\ ncalls < MaxCalls
    /\ \E name \in Codes, df \in StoreFrames : ToParquetPartition(df, name)
    /\ prev' = last
    /\ ncalls' = ncalls + 1
    /\ UNCHANGED <<req, chk, fin, dates, aligned, pc, seen, curated, build,
                   scoring, fetching>>

DoCheck(code, rq) ==
    /\ req' = rq
    /\ chk' = CheckExistingData(fs[FlatPath(code)], rq, rq.today)
    /\ last' = Op("check", code, EmptyFrame, FlatPath(code), "none")
    /\ prev' = last
    /\ UNCHANGED <<fs, fin, dates, aligned, pc, seen, curated, build,
                   scoring, fetching>>

CheckAfterStore ==
    /\ ncalls < MaxCalls
    /\ \E code \in Codes, rq \in StoreRequests : DoCheck(code, rq)
    /\ ncalls' = ncalls + 1

NextStore == SaveProcessedData \/ CheckAfterStore

SpecStore == InitStore /\ [][NextStore]_vars

-----------------------------------------------------------------------------
(* The cache check over a stored flat partition *)

\* a stored frame with a row every stride days from lo to hi
RangeFrame(lo, hi, stride) ==
    [i \in 1..((hi - lo) \div stride + 1) |-> Row(lo + (i - 1) * stride, 1)]

StoredStarts == (StartToleranceDays + 1)..(StartToleranceDays + MaxStartSweep)
StoredEnds ==
    (StartToleranceDays + MinRows)..(StartToleranceDays + MinRows + MaxEndSweep)

StoredPartitions ==
    {Absent, Corrupt, Stored(EmptyFrame)}
      \cup {Stored(RangeFrame(lo, hi, k)) :
                lo \in StoredStarts, hi \in StoredEnds, k \in 1..MaxStride}

RequestStarts == 1..MaxGapSweep
RequestEnds ==
    (StartToleranceDays + MinRows)..(StartToleranceDays + MinRows + MaxEndSweep + 2)
Todays ==
    {StartToleranceDays + MinRows + 1, StartToleranceDays + MinRows + MaxEndSweep + 1}

CacheRequests ==
    {Request(TRUE, s, TRUE, e, t) :
        s \in RequestStarts, e \in RequestEnds, t \in Todays}
      \cup {Request(TRUE, s, FALSE, 0, t) : s \in RequestStarts, t \in Todays}
      \cup {Request(FALSE, 0, TRUE, e, t) : e \in RequestEnds, t \in Todays}
      \cup {Request(FALSE, 0, FALSE, 0, t) : t \in Todays}

InitCache ==
    /\ \E code \in Codes, file \in StoredPartitions :
          fs = [p \in Paths |-> IF p = FlatPath(code) THEN file ELSE Absent]
    /\ last = NoOp
    /\ prev = NoOp
    /\ ncalls = 0
    /\ req = NoRequest
    /\ chk = NoCheck
    /\ fin = NoFin
    /\ dates = <<>>
    /\ aligned = NotAligned
    /\ pc = [w \in Workers |-> Idle("none")]
    /\ seen = NotSeen
    /\ curated = NoCur
    /\ build = NoBuild
    /\ scoring = NoScoring
    /\ fetching = NoFetching

\* the check reads the tree and changes nothing: one check per run
CacheCheck ==
    /\ ncalls = 0
    /\ \E code \in Codes, rq \in CacheRequests : DoCheck(code, rq)
    /\ ncalls' = ncalls + 1

NextCache == CacheCheck

SpecCache == InitCache /\ [][NextCache]_vars

-----------------------------------------------------------------------------
(* fetch_daily_with_cache over a stored flat partition *)

ConsultsCache_always(force_refresh) == TRUE

\* `if not force_refresh:` the cache is looked at
ConsultsCache(force_refresh) == ~force_refresh

\* what fetch_daily returns: the frame of the API, or the empty frame of its
\* handler when the API gave nothing
ApiFrames == {EmptyFrame, RangeFrame(1, MaxEndSweep, 1)}

\* the call: the request handed to the check (end defaults to today before
\* it), the check's result when it ran, and what the call did
FetchDailyWithCache(file, code, rq, force_refresh, api) ==
    LET end == IF rq.hasEnd THEN rq.end ELSE rq.today
        asked == Request(rq.hasStart, rq.start, TRUE, end, rq.today)
        consulted == ConsultsCache(force_refresh)
        existing_data == CheckExistingData(file, asked, rq.today)
    IN  IF consulted /\ existing_data.ret # EmptyFrame
        THEN [req |-> asked, chk |-> existing_data,
              call |-> Fetching(code, rq, force_refresh, TRUE, 0,
                                existing_data.ret, "cache")]
        ELSE [req |-> IF consulted THEN asked ELSE NoRequest,
              chk |-> IF consulted THEN existing_data ELSE NoCheck,
              call |-> Fetching(code, rq, force_refresh, consulted, 1, api,
                                "fetch_daily")]

FetchRequests ==
    {rq \in CacheRequests :
        /\ rq.hasStart => rq.start \in {1, MaxGapSweep}
        /\ rq.hasEnd => rq.end \in {StartToleranceDays + MinRows,
                                    StartToleranceDays + MinRows + MaxEndSweep + 2}}

InitFetch ==
    /\ \E code \in Codes, file \in StoredPartitions :
          fs = [p \in Paths |-> IF p = FlatPath(code) THEN file ELSE Absent]
    /\ last = NoOp
    /\ prev = NoOp
    /\ ncalls = 0
    /\ req = NoRequest
    /\ chk = NoCheck
    /\ fin = NoFin
    /\ dates = <<>>
    /\ aligned = NotAligned
    /\ pc = [w \in Workers |-> Idle("none")]
    /\ seen = NotSeen
    /\ curated = NoCur
    /\ build = NoBuild
    /\ scoring = NoScoring
    /\ fetching = NoFetching

\* one call per run; the tree is read, never written
FetchDailyWithCacheCall ==
    /\ fetching = NoFetching
    /\ \E code \in Codes, rq \in FetchRequests, force_refresh \in BOOLEAN,
          api \in ApiFrames :
          LET r == FetchDailyWithCache(fs[FlatPath(code)], code, rq,
                                       force_refresh, api)
          IN  /\ fetching' = r.call
              /\ req' = r.req
              /\ chk' = r.chk
    /\ UNCHANGED <<fs, last, prev, ncalls, fin, dates, aligned, pc, seen, curated,
                   build, scoring>>

NextFetch == FetchDailyWithCacheCall

SpecFetch == InitFetch /\ [][NextFetch]_vars

-----------------------------------------------------------------------------
(* The store under the thread pool: to_parquet_partition step by step, with  *)
(* the readers of the tree running in between                               *)

Partial == [st |-> "partial", df |-> EmptyFrame]

PoolFrames == {<<r>> : r \in StoreRows}

PoolRequests == {Request(FALSE, 0, FALSE, 0, DaysPerMonth + 1)}

InitPool ==
    /\ fs = [p \in Paths |-> Absent]
    /\ last = NoOp
    /\ prev = NoOp
    /\ ncalls = 0
    /\ req = NoRequest
    /\ chk = NoCheck
    /\ fin = NoFin
    /\ dates = <<>>
    /\ aligned = NotAligned
    /\ pc = [w \in Workers |-> Idle("none")]
    /\ seen = NotSeen
    /\ curated = NoCur
    /\ build = NoBuild
    /\ scoring = NoScoring
    /\ fetching = NoFetching

\* lines 29-35: the path, the exists test, the read of the old table and the
\* fingerprint comparison
BeginWrite(w) ==
    /\ pc[w].st = "idle"
    /\ ncalls < MaxPoolCalls
    /\ \E name \in Codes, df \in PoolFrames :
          LET path == PartitionOf(df, name)
              file == fs[path]
          IN  pc' = [pc EXCEPT ![w] =
                  IF file.st # "absent" /\ file.st # "ok"
                  THEN Idle("RAISED")
                  ELSE IF file.st = "ok"
                          /\ HashDf(ReadTable(file)) = HashDf(df)
                  THEN Idle("SKIPPED")
                  ELSE [st |-> "open", df |-> df, path |-> path,
                        old |-> file, outcome |-> "none"]]
    /\ ncalls' = ncalls + 1
    /\ UNCHANGED <<fs, last, prev, req, chk, fin, dates, aligned, seen, curated, build,
                   scoring, fetching>>

\* line 36, pq.write_table opens the target path itself: the file is
\* truncated in place
OpenTable(w) ==
    /\ pc[w].st = "open"
    /\ fs' = [fs EXCEPT ![pc[w].path] = Partial]
    /\ pc' = [pc EXCEPT ![w].st = "writing"]
    /\ UNCHANGED <<last, prev, ncalls, req, chk, fin, dates, aligned, seen, curated, build,
                   scoring, fetching>>

\* line 36, pq.write_table writes the footer and closes.  When another thread
\* has the same file open for writing the bytes of the two interleave.
CloseTable(w) ==
    /\ pc[w].st = "writing"
    /\ \E file \in {Stored(pc[w].df)} \cup
                    (IF \E v \in Workers \ {w} :
                           pc[v].st = "writing" /\ pc[v].path = pc[w].path
                     THEN {Corrupt} ELSE {}) :
          fs' = [fs EXCEPT ![pc[w].path] = file]
    /\ pc' = [pc EXCEPT ![w] = Idle("WRITTEN")]
    /\ UNCHANGED <<last, prev, ncalls, req, chk, fin, dates, aligned, seen, curated, build,
                   scoring, fetching>>

\* the curation scans and the price loader read every file under the tree
ScanRead ==
    \E p \in Paths :
        /\ fs[p].st # "absent"
        /\ LET writers == {w \in Workers :
                             pc[w].st = "writing" /\ pc[w].path = p}
           IN  seen' = Seen(p, fs[p],
                            \E w \in writers : pc[w].old.st = "ok",
                            {pc[w].old.df : w \in writers}
                               \cup {pc[w].df : w \in writers})
        /\ UNCHANGED <<fs, last, prev, ncalls, req, chk, fin, dates, aligned, pc, curated, build,
                   scoring, fetching>>

\* the cache check reads the flat path
PoolCacheCheck ==
    /\ \E code \in Codes, rq \in PoolRequests :
          /\ req' = rq
          /\ chk' = CheckExistingData(fs[FlatPath(code)], rq, rq.today)
          /\ seen' = Seen(FlatPath(code), fs[FlatPath(code)], FALSE, {})
    /\ UNCHANGED <<fs, last, prev, ncalls, fin, dates, aligned, pc, curated, build,
                   scoring, fetching>>

NextPool ==
    \/ \E w \in Workers : BeginWrite(w)
    \/ \E w \in Workers : OpenTable(w)
    \/ \E w \in Workers : CloseTable(w)
    \/ ScanRead
    \/ PoolCacheCheck

SpecPool == InitPool /\ [][NextPool]_vars

-----------------------------------------------------------------------------
(* build_data_warehouse.main: process_target under the thread pool.  A frame *)
(* that fetch_daily returns is kept as its row count, the number of rows     *)
(* with vol > 0 and the frame clean_price makes of it.                       *)

BuildCodes == {"510050.SH", "510300.SH"}

BuildPaths == {PartPath(ym, c) : ym \in Months, c \in BuildCodes}

Fetched(rows, traded, cleaned) ==
    [rows |-> rows, traded |-> traded, cleaned |-> cleaned]

CleanedFrame == <<Row(DaysPerMonth, 1)>>

Fetches ==
    {Fetched(0, 0, EmptyFrame),
     Fetched(MinRows - 1, MinRows - 1, CleanedFrame),
     Fetched(MinRows, 0, EmptyFrame),
     Fetched(MinRows, MinRows, CleanedFrame)}

\* the ts_code column of the universe file
CandidateLists ==
    {<<"510050.SH", "510300.SH">>,
     <<"510050.SH", "510050.SH">>,
     <<"510300.SH", "510050.SH", "510300.SH">>}

Pending == "pending"

NewRun(run, codes, fetch) ==
    Build(run, codes, fetch, 1, [w \in Workers |-> 0],
          [t \in 1..Len(codes) |-> Pending], {}, 0, "running")

InitBuild ==
    /\ fs = [p \in BuildPaths |-> Absent]
    /\ last = NoOp
    /\ prev = NoOp
    /\ ncalls = 0
    /\ req = NoRequest
    /\ chk = NoCheck
    /\ fin = NoFin
    /\ dates = <<>>
    /\ aligned = NotAligned
    /\ pc = [w \in Workers |-> Idle("none")]
    /\ seen = NotSeen
    /\ curated = NoCur
    /\ \E codes \in CandidateLists, fetch \in [BuildCodes -> Fetches] :
          build = NewRun(1, codes, fetch)
    /\ scoring = NoScoring
    /\ fetching = NoFetching

Succeeded_any(outcome) == outcome # Pending

\* `if future.result()`: process_target returned True
Succeeded(outcome) == outcome \in {"WRITTEN", "SKIPPED"}

\* lines 44-62 of process_target up to the write of to_parquet_partition
StartTarget(code, f) ==
    IF f.rows = 0 THEN Idle("EMPTY")
    ELSE IF f.rows < MinRows THEN Idle("SHORT")
    ELSE IF f.traded = 0 THEN Idle("CLEANED_EMPTY")
    ELSE
        LET path == PartitionOf(f.cleaned, code)
            file == fs[path]
        IN  IF file.st # "absent" /\ file.st # "ok" THEN Idle("RAISED")
            ELSE IF file.st = "ok" /\ HashDf(ReadTable(file)) = HashDf(f.cleaned)
            THEN Idle("SKIPPED")
            ELSE [st |-> "open", df |-> f.cleaned, path |-> path, old |-> file,
                  outcome |-> "none"]

\* a pool thread takes the next submitted future and runs process_target
ProcessTarget(w) ==
    /\ build.main = "running"
    /\ build.job[w] = 0
    /\ build.next <= Len(build.codes)
    /\ pc' = [pc EXCEPT ![w] =
                 StartTarget(build.codes[build.next],
                             build.fetch[build.codes[build.next]])]
    /\ build' = [build EXCEPT !.job[w] = build.next, !.next = build.next + 1]
    /\ UNCHANGED <<fs, last, prev, ncalls, req, chk, fin, dates, aligned, seen,
                   curated,
                   scoring, fetching>>

\* pq.write_table fails after it opened the file: the exception is caught at
\* line 71
WriteError(w) ==
    /\ pc[w].st = "writing"
    /\ build.job[w] # 0
    /\ pc' = [pc EXCEPT ![w] = Idle("WRITE_ERROR")]
    /\ UNCHANGED <<fs, last, prev, ncalls, req, chk, fin, dates, aligned, seen,
                   curated, build,
                   scoring, fetching>>

\* process_target returns and the future completes
FutureDone(w) ==
    /\ build.job[w] # 0
    /\ pc[w].st = "idle"
    /\ build' = [build EXCEPT !.result[build.job[w]] = pc[w].outcome,
                              !.job[w] = 0]
    /\ pc' = [pc EXCEPT ![w] = Idle("none")]
    /\ UNCHANGED <<fs, last, prev, ncalls, req, chk, fin, dates, aligned, seen,
                   curated,
                   scoring, fetching>>

\* lines 95-100: main takes a completed future and counts it
AsCompleted ==
    /\ build.main = "running"
    /\ \E t \in 1..Len(build.codes) :
          /\ t \notin build.collected
          /\ build.result[t] # Pending
          /\ build' = [build EXCEPT
                !.collected = build.collected \cup {t},
                !.success_count =
                    IF Succeeded(build.result[t])
                    THEN build.success_count + 1 ELSE build.success_count,
                !.main = IF build.collected \cup {t} = 1..Len(build.codes)
                         THEN "done" ELSE "running"]
    /\ UNCHANGED <<fs, last, prev, ncalls, req, chk, fin, dates, aligned, pc, seen,
                   curated,
                   scoring, fetching>>

\* the run is killed and started again over the tree it left
Interrupt ==
    /\ build.main = "running"
    /\ build.run < MaxRuns
    /\ build' = NewRun(build.run + 1, build.codes, build.fetch)
    /\ pc' = [w \in Workers |-> Idle("none")]
    /\ UNCHANGED <<fs, last, prev, ncalls, req, chk, fin, dates, aligned, seen,
                   curated,
                   scoring, fetching>>

NextBuild ==
    \/ \E w \in Workers : ProcessTarget(w)
    \/ \E w \in Workers : OpenTable(w)
    \/ \E w \in Workers : CloseTable(w)
    \/ \E w \in Workers : WriteError(w)
    \/ \E w \in Workers : FutureDone(w)
    \/ AsCompleted
    \/ Interrupt

SpecBuild == InitBuild /\ [][NextBuild]_vars

-----------------------------------------------------------------------------
(* Properties of the cache check *)

Checked == last.op = "check"
CheckedFile == fs[last.path]
Readable == CheckedFile.st = "ok" /\ CheckedFile.df # EmptyFrame
Hit == chk.ret # EmptyFrame

RequestedEnd == IF req.hasEnd THEN req.end ELSE req.today
ExistingMin == IndexMin(CheckedFile.df)
ExistingMax == IndexMax(CheckedFile.df)
OverlapLo == IF req.hasStart THEN Max2(req.start, ExistingMin) ELSE ExistingMin
OverlapHi == Min2(RequestedEnd, ExistingMax)
RowsInOverlap ==
    LET lo == OverlapLo
        hi == OverlapHi
    IN  Cardinality({i \in 1..Len(CheckedFile.df) :
                        CheckedFile.df[i].date \in lo..hi})

\* C1: with a start date given and a readable non-empty partition, the check
\* returns a non-empty frame iff existing_min - start <= 5 days and
\* end - existing_max <= 1 day and at least 100 stored rows lie in the overlap
\* window; otherwise it returns the empty frame.
C1_CacheDecision ==
    (Checked /\ Readable /\ req.hasStart) =>
        (Hit <=> /\ ExistingMin - req.start <= 5
                 /\ RequestedEnd - ExistingMax <= 1
                 /\ RowsInOverlap >= 100)

C1_Witness ==
    /\ Checked /\ Readable /\ req.hasStart /\ Hit
    /\ ExistingMin - req.start = 5
    /\ RequestedEnd - ExistingMax = 1
    /\ RowsInOverlap = 100

\* C8: on every HIT, with or without a requested start, each returned row is
\* dated within [max(start, existing_min), min(end, existing_max)].
C8_HitWithinOverlap ==
    (Checked /\ Readable /\ Hit) =>
        LET lo == OverlapLo
            hi == OverlapHi
        IN  \A i \in 1..Len(chk.ret) : chk.ret[i].date \in lo..hi

\* C9: with the start omitted, the check returns HIT iff
\* existing_max >= requested_end - 1 day (end defaulting to today), whatever
\* the stored start and row count.
C9_FullHistoryDecision ==
    (Checked /\ Readable /\ ~req.hasStart) =>
        (Hit <=> ExistingMax >= RequestedEnd - 1)

C9_Witness ==
    /\ Checked /\ Readable /\ ~req.hasStart /\ ~req.hasEnd /\ Hit
    /\ ExistingMax = req.today - 1
    /\ Len(CheckedFile.df) < 100

\* the request starts 2 days before the stored range and ends 3 days after
\* it, and the overlap holds at least min_rows rows
ScenarioC ==
    /\ Checked /\ Readable /\ req.hasStart /\ req.hasEnd
    /\ ExistingMin - req.start = 2
    /\ req.end - ExistingMax = 3
    /\ RowsInOverlap >= MinRows

\* C22: scenario C, a request 2020-01-01..2024-01-01 against a stored range
\* 2020-01-03..2023-12-29 (gaps of 2 and 3 days) with tolerances 5 and 1 and
\* at least min_rows rows in the overlap, is a HIT.
C22_ScenarioCHit == ScenarioC => Hit

\* the check returned from its exception handler (lines 113-115)
HandlerEntered == chk.line = 115

\* C27: for a readable non-empty partition and a well-formed request the
\* check decides on its normal path, whatever start_gap and end_gap are: the
\* exception handler is never entered and no variable is read unassigned.
C27_NormalDecisionPath == (Checked /\ Readable) => ~HandlerEntered

-----------------------------------------------------------------------------
(* Properties of the store *)

Saved(op) == op.op = "save" /\ op.outcome \in {"WRITTEN", "SKIPPED"}

IsPermutation(a, b) ==
    /\ Len(a) = Len(b)
    /\ {a[i] : i \in 1..Len(a)} = {b[i] : i \in 1..Len(b)}

\* what the caller of the check sees for a partition that does not exist
MissingOutcome == CheckExistingData(Absent, req, req.today).ret
\* what the caller of the check sees for a partition that is too old
StaleOutcome == Ret(111, EmptyFrame).ret

\* C2: after a frame has been stored for an instrument, a cache check for
\* that instrument whose window the stored frame satisfies consults the
\* location that was written: it reports HIT, never MISSING.
C2_OnePartitionScheme ==
    (/\ Checked /\ Saved(prev) /\ prev.code = last.code
     /\ CheckExistingData(Stored(prev.df), req, req.today).ret # EmptyFrame)
        => (last.path = prev.path /\ chk.line # 49 /\ Hit)

\* C3: a call of to_parquet_partition with the frame the previous call was
\* given makes no physical write and leaves the tree untouched; when the
\* previous call completed, it returns on the equal fingerprint.
C3_IdempotentWrite ==
    [][(/\ last.op = "save" /\ last'.op = "save" /\ ncalls' = ncalls + 1
        /\ last'.code = last.code /\ last'.df = last.df)
          => (/\ fs' = fs
              /\ last'.outcome # "WRITTEN"
              /\ Saved(last) => last'.outcome = "SKIPPED")]_vars

C3_Witness ==
    /\ last.op = "save" /\ prev.op = "save" /\ prev.outcome = "WRITTEN"
    /\ last.code = prev.code /\ last.df = prev.df /\ Len(last.df) > 1
    /\ last.outcome = "SKIPPED"

\* C4: a frame holding the same dated rows in another row order has the same
\* fingerprint, targets the same partition and is skipped as no-change.
C4_PermutedWriteSkipped ==
    (/\ last.op = "save" /\ Saved(prev) /\ last.code = prev.code
     /\ IsPermutation(last.df, prev.df))
        => (/\ HashDf(last.df) = HashDf(prev.df)
            /\ last.path = prev.path
            /\ last.outcome = "SKIPPED")

\* C10: an unreadable partition gives the cache check an outcome of its own,
\* different from the one for a missing and for a stale partition, and the
\* store's read before a write does not raise out of the store.
C10_DataCorruptDistinct ==
    /\ (Checked /\ CheckedFile.st = "corrupt")
          => (chk.ret # MissingOutcome /\ chk.ret # StaleOutcome)
    /\ last.op = "save" => last.outcome # "RAISED"

-----------------------------------------------------------------------------
(* Properties of the aligner *)

\* the disclosures published strictly before day d
PublishedBefore(f, d) ==
    Fin(f.columns, SelectSeq(f.rows, LAMBDA r : r.pub_date < d))

\* the forward-filled value of the latest disclosure published before day d
LastKnown(f, col, d) ==
    LET rows == FfillRows(SortByPub(PublishedBefore(f, d).rows),
                          Disclosure(0, NaN, NaN))
    IN  IF rows = <<>> THEN NaN ELSE rows[Len(rows)][col]

\* C6: no lookahead.  The value produced at calendar date D for each tracked
\* metric is the value produced from the disclosures published strictly
\* before D alone: adding, removing or altering a disclosure published on or
\* after D leaves it unchanged.  (A call that raises produces no value.)
C6_NoLookahead ==
    aligned.status = "ok" =>
        \A i \in 1..Len(dates), col \in Metrics :
            aligned.cols[col][i] =
                AlignFinancialToDaily(PublishedBefore(fin, dates[i]),
                                      dates).cols[col][i]

C6_Witness ==
    /\ aligned.status = "ok"
    /\ \E i \in 2..Len(dates), k \in 1..Len(fin.rows) :
          /\ fin.rows[k].pub_date = dates[i]
          /\ fin.rows[k].roe_ttm = 2
          /\ aligned.cols["roe_ttm"][i] = 1

\* C7: a disclosure published on P takes effect on the first calendar date
\* strictly after P, whether or not P is a calendar date, and stays in force
\* until superseded: the value at D is the forward-filled value of the latest
\* disclosure published before D.
C7_EffectiveNextTradingDay ==
    aligned.status = "ok" =>
        \A i \in 1..Len(dates), col \in fin.columns :
            aligned.cols[col][i] = LastKnown(fin, col, dates[i])

\* the metric columns the returned frame carries
MetricColumns == DOMAIN aligned.cols

Returned == aligned.status # "none"

AllNullOverCalendar(col) ==
    /\ Len(aligned.cols[col]) = Len(dates)
    /\ \A i \in 1..Len(dates) : aligned.cols[col][i] = NaN

\* C20 as stated: with an empty disclosure input the alignment never raises
\* and returns a frame over exactly the calendar dates with an all-null
\* column for every tracked metric, from align_financial_to_daily and from
\* align_data alike.
C20_EmptyDisclosuresAllNull ==
    (Returned /\ FinEmpty(fin)) =>
        /\ aligned.status # "raised"
        /\ MetricColumns = Metrics
        /\ \A col \in Metrics : AllNullOverCalendar(col)

Produced == aligned.status \in {"ok", "joined"}

\* the disclosures published before disclosure k that have the metric
EarlierWith(f, col, k) ==
    {j \in 1..Len(f.rows) :
        /\ f.rows[j].pub_date < f.rows[k].pub_date
        /\ f.rows[j][col] # NaN}

\* what disclosure k carries for the metric: its own value, else the value of
\* the most recent earlier-published disclosure that has one
Carried(f, col, k) ==
    IF f.rows[k][col] # NaN THEN f.rows[k][col]
    ELSE IF EarlierWith(f, col, k) = {} THEN NaN
    ELSE LET j == CHOOSE j \in EarlierWith(f, col, k) :
                      \A x \in EarlierWith(f, col, k) :
                          f.rows[x].pub_date <= f.rows[j].pub_date
         IN  f.rows[j][col]

\* C26: the disclosures are ordered by ascending publish date and each
\* tracked metric is forward-filled along that order before the reindexing
\* onto the calendar, whatever the input row order: the calendar date after
\* the publish date of a disclosure shows the disclosure's own value or, when
\* it lacks the metric, the value of the most recent earlier-published
\* disclosure that has it (also when that one was published off the
\* calendar), never a later-published one.
C26_FilledAlongPublishOrder ==
    (Produced /\ UniquePubDates(fin.rows)) =>
        \A k \in 1..Len(fin.rows), col \in fin.columns, i \in 1..(Len(dates) - 1) :
            dates[i] = fin.rows[k].pub_date =>
                aligned.cols[col][i + 1] = Carried(fin, col, k)

C26_Witness ==
    /\ Produced
    /\ \E k, j \in 1..Len(fin.rows), i \in 1..(Len(dates) - 1) :
          /\ j > k
          /\ fin.rows[j].pub_date < fin.rows[k].pub_date
          /\ fin.rows[j].pub_date \notin {dates[x] : x \in 1..Len(dates)}
          /\ dates[i] = fin.rows[k].pub_date
          /\ fin.rows[k].roe_ttm = NaN
          /\ fin.rows[j].roe_ttm = 2
          /\ aligned.cols["roe_ttm"][i + 1] = 2

-----------------------------------------------------------------------------
(* Properties of the store under the pool *)

\* C5: a reader of a partition that is being overwritten sees the complete
\* old frame or the complete new frame, never a partially written file.
C5_AtomicOverwrite ==
    seen.overwrite => (seen.st = "ok" /\ seen.df \in seen.allowed)

-----------------------------------------------------------------------------
(* Properties of the curation *)

ByScript == curated.pass.entry = "DataQualityFilter"
ByFilter == curated.pass.entry = "UniverseFilter"
Raised == curated.pass.ret = "ZeroDivisionError"

CodesIn(rows) == {rows[i].code : i \in 1..Len(rows)}

ScoredRows == curated.pass.scan.scores

\* the four conditions of the claim, read off the metrics of a scored instrument
FourConditions(e, th) ==
    /\ e.m.available_days * 100 >= th.min_coverage_rate * e.m.target_days_count
    /\ e.m.available_days >= th.min_history_days
    /\ e.m.close_notna * 5 >= e.m.available_days * 4
    /\ e.quality_score.num >= th.min_quality_score * e.quality_score.den

\* C11: in a pass of DataQualityFilter.generate_high_quality_universe an
\* instrument is in the qualified set if and only if its coverage_rate >=
\* min_coverage_rate, its available_days >= min_history_days, its
\* close_completeness >= 0.8 and its quality_score >= min_quality_score; an
\* instrument with fewer rows than min_history_days (40 against 50) is out
\* whatever its completeness and score.
C11_QualifiedIffFourConditions ==
    ByScript =>
        /\ CodesIn(curated.pass.qualified) \subseteq CodesIn(ScoredRows)
        /\ \A i \in 1..Len(ScoredRows) :
              ScoredRows[i].code \in CodesIn(curated.pass.qualified)
                  <=> FourConditions(ScoredRows[i], curated.pass.th)

C11_Witness ==
    /\ ByScript
    /\ curated.pass.th.min_history_days = FullRows
    /\ curated.pass.qualified # <<>>
    /\ \E i \in 1..Len(ScoredRows) :
          LET e == ScoredRows[i]
          IN  /\ e.m.available_days = ShortRows
              /\ e.m.close_notna = e.m.available_days
              /\ e.m.available_days * 100
                     >= curated.pass.th.min_coverage_rate * e.m.target_days_count
              /\ e.quality_score.num
                     >= curated.pass.th.min_quality_score * e.quality_score.den
              /\ e.code \notin CodesIn(curated.pass.qualified)

KeyOf(e) == IF ByScript THEN e.quality_score ELSE e.overall_score

\* the size cap the pass was given: max_assets or max_universe_size
SizeCap ==
    IF ByScript THEN curated.pass.th.max_assets
    ELSE curated.pass.th.max_universe_size

NonIncreasing(rows) ==
    \A i, j \in 1..Len(rows) : i < j => ScoreGE(KeyOf(rows[i]), KeyOf(rows[j]))

LeftOut ==
    {i \in 1..Len(curated.pass.qualified) :
        curated.pass.qualified[i].code \notin CodesIn(curated.pass.selected)}

\* C12: the curated list is in non-increasing order of composite score and is
\* cut to the size cap: for every cap >= 0 it has at most that many
\* instruments, and every qualifying instrument left out scores no more than
\* every instrument kept.
C12_SortedAndTruncated ==
    ((ByScript /\ ~Raised) \/ ByFilter) =>
        /\ NonIncreasing(curated.pass.selected)
        /\ SizeCap >= 0 => Len(curated.pass.selected) <= SizeCap
        /\ \A i \in LeftOut : \A k \in 1..Len(curated.pass.selected) :
              ScoreGE(KeyOf(curated.pass.selected[k]),
                      KeyOf(curated.pass.qualified[i]))

CandidateFiles ==
    {i \in 1..Len(curated.files) :
        curated.files[i].code \in UniverseCodes(curated.universe)}

Unreadable == {i \in CandidateFiles : curated.files[i].st # "ok"}

ReadableInWindow ==
    {i \in CandidateFiles :
        /\ curated.files[i].st = "ok"
        /\ InWindow(curated.files[i].df, curated.pass.th.start_date,
                    curated.pass.th.end_date) # <<>>}

ScanLog == curated.pass.scan.log

\* C15: in a curation scan a candidate partition that cannot be read is left
\* out of the scoring and logged, once per file, so that the failures can be
\* counted; every candidate with a readable partition is still scored and the
\* pass is not aborted.
C15_UnreadableIsolated ==
    ((ByScript \/ ByFilter) /\ Unreadable # {}) =>
        /\ \A i \in Unreadable :
              Cardinality({k \in 1..Len(ScanLog) : ScanLog[k] = i}) = 1
        /\ Len(ScanLog) = Cardinality(Unreadable)
        /\ CodesIn(ScoredRows) = {curated.files[i].code : i \in ReadableInWindow}
        /\ ~Raised

-----------------------------------------------------------------------------
(* Properties of the refresh policy *)

Requests == {"auto_update_universe", "DataInterface"}

\* a step that serves a curation request
RequestStep ==
    /\ curated'.npass = curated.npass + 1
    /\ curated'.pass.entry \in Requests

\* now - generated_at < auto_update_days, generated_at being the time the
\* published snapshot was written
WithinUpdateDays ==
    /\ curated.hq.exists
    /\ curated.now - curated.hq.mtime < curated.config.auto_update_days

ServedUnchanged ==
    /\ ~curated'.pass.rescored
    /\ curated'.hq = curated.hq
    /\ curated'.detailed = curated.detailed

Replaced ==
    /\ curated'.pass.rescored
    /\ curated'.hq.exists
    /\ curated'.hq.by = curated'.npass
    /\ curated'.hq.rows = TsCodes(curated'.pass.selected)

\* C13: a curation request made while now - generated_at < auto_update_days
\* serves the existing snapshot unchanged, with no rescoring and no write;
\* any other request rescores the whole pool and replaces the snapshot; so of
\* two requests within auto_update_days of each other the second does no
\* rescoring and leaves the snapshot content as the first left it.
C13_RefreshPolicy ==
    [][RequestStep =>
        /\ IF WithinUpdateDays THEN ServedUnchanged ELSE Replaced
        /\ (/\ curated.pass.entry \in Requests
            /\ curated'.pass.at - curated.pass.at < curated.config.auto_update_days)
              => ServedUnchanged]_vars

\* a pass that scored the pool and found no qualifying instrument
ZeroQualified == curated.pass.rescored /\ curated.pass.selected = <<>>

\* what the entry points return when the curation fails
FailureReturns == {"False", "ZeroDivisionError"}

\* C14: a pass that finds zero qualifying instruments returns an explicit
\* empty snapshot: the outcome is not the one of a curation error, and the
\* published snapshot is the empty one of this pass, not the previous one.
C14_EmptySnapshotExplicit ==
    ZeroQualified =>
        /\ curated.pass.ret \notin FailureReturns
        /\ curated.hq.exists
        /\ curated.hq.by = curated.npass
        /\ curated.hq.rows = <<>>

\* a pass that regenerated the published universe
CompletedRefresh == curated.pass.wrote # {}

\* C19: after a completed refresh, by whichever entry point, the universe
\* file and the detailed report are both of that pass and list the same
\* instruments in the same order.
C19_FilesOfOnePass ==
    CompletedRefresh =>
        /\ curated.hq.exists /\ curated.detailed.exists
        /\ curated.hq.by = curated.npass
        /\ curated.detailed.by = curated.npass
        /\ TsCodes(curated.detailed.rows) = curated.hq.rows

-----------------------------------------------------------------------------
(* Properties of the parallel build *)

Tasks == 1..Len(build.codes)

Finished == {t \in Tasks : build.result[t] # Pending}

\* the outcomes with which process_target returns True
TrueOutcomes == {"WRITTEN", "SKIPPED"}

\* the tasks that share their instrument with no other task of the list
Alone == {t \in Tasks : \A u \in Tasks \ {t} : build.codes[u] # build.codes[t]}

\* what a task can come to by its own fetch, its own write and the partition
\* its own instrument had when the run started
OwnOutcomes(f, run) ==
    IF f.rows = 0 THEN {"EMPTY"}
    ELSE IF f.rows < MinRows THEN {"SHORT"}
    ELSE IF f.traded = 0 THEN {"CLEANED_EMPTY"}
    ELSE IF run = 1 THEN {"WRITTEN", "WRITE_ERROR"}
    ELSE {"WRITTEN", "WRITE_ERROR", "SKIPPED", "RAISED"}

\* some step of the run other than its interruption
Progress ==
    \/ \E w \in Workers : ProcessTarget(w)
    \/ \E w \in Workers : OpenTable(w)
    \/ \E w \in Workers : CloseTable(w)
    \/ \E w \in Workers : WriteError(w)
    \/ \E w \in Workers : FutureDone(w)
    \/ AsCompleted

\* C16: in the parallel build every instrument of the list comes to a recorded
\* outcome and the run ends with success_count equal to the number of
\* instruments processed with success; a worker that fails (empty fetch, too
\* few rows, write error) neither blocks the run nor changes the outcome of a
\* worker on another instrument.
C16_OutcomesCountedInIsolation ==
    /\ build.main = "running" => ENABLED Progress
    /\ build.main = "done" =>
          /\ Finished = Tasks
          /\ build.success_count
                = Cardinality({t \in Tasks : build.result[t] \in TrueOutcomes})
    /\ build.main \in {"running", "done"} =>
          /\ build.success_count
                = Cardinality({t \in build.collected :
                                  build.result[t] \in TrueOutcomes})
          /\ \A t \in Finished \cap Alone :
                build.result[t]
                    \in OwnOutcomes(build.fetch[build.codes[t]], build.run)

C16_Witness ==
    /\ build.main = "done"
    /\ build.run = 1
    /\ build.success_count = 1
    /\ \E t, u \in Alone :
          /\ build.result[t] = "WRITTEN"
          /\ build.result[u] \in {"EMPTY", "SHORT", "WRITE_ERROR"}

\* the read-fingerprint-then-maybe-write sequence of to_parquet_partition
InStoreSequence(w) == pc[w].st \in {"open", "writing"}

\* C17: writes to one instrument are serialized: no two workers are inside
\* the store's read-fingerprint-then-maybe-write sequence on the same
\* partition at the same time, whatever the candidate list, a list that names
\* an instrument twice included.
C17_WritesSerialized ==
    \A w, v \in Workers :
        (w # v /\ InStoreSequence(w) /\ InStoreSequence(v))
            => pc[w].path # pc[v].path

\* a re-run, after an interruption, that ran to its end with no write error
\* of its own over a list that names every instrument once
RerunCompleted ==
    /\ build.run > 1
    /\ build.main = "done"
    /\ Alone = Tasks
    /\ \A t \in Tasks : build.result[t] # "WRITE_ERROR"

\* the tasks whose fetch passes the checks of process_target
Storable ==
    {t \in Tasks : LET f == build.fetch[build.codes[t]]
                   IN  f.rows >= MinRows /\ f.traded > 0}

\* the tree one uninterrupted run leaves
UninterruptedTree ==
    [p \in BuildPaths |->
        IF \E t \in Storable :
              p = PartitionOf(build.fetch[build.codes[t]].cleaned, build.codes[t])
        THEN Stored(CleanedFrame)
        ELSE Absent]

\* C18: a run that is interrupted at any point and then re-run to its end
\* leaves the store as one uninterrupted run does, with no corrupt or partly
\* written partition, and the re-run's write of the interrupted instrument
\* succeeds.
C18_RerunAfterInterruption ==
    RerunCompleted =>
        /\ \A p \in BuildPaths : fs[p].st \in {"absent", "ok"}
        /\ fs = UninterruptedTree
        /\ \A t \in Storable : build.result[t] \in TrueOutcomes

-----------------------------------------------------------------------------
(* Properties of the quality score *)

Rescored == scoring.before # <<>>

\* coverage_rate, as a fraction: 0 when the window has no business day
RateOf(m) ==
    IF m.target_days_count > 0
    THEN Score(m.available_days, m.target_days_count)
    ELSE Score(0, 1)

\* min(coverage_rate * 100, 100) as a fraction of 100
CoverageOf(m) ==
    IF ScoreGE(RateOf(m), Score(1, 1)) THEN Score(1, 1) ELSE RateOf(m)

CompletenessOf(m, notna) == Score(m[notna], m.available_days)

\* every sub-metric score of x is at least the one of y
SubScoresGE(x, y) ==
    /\ ScoreGE(CoverageOf(x), CoverageOf(y))
    /\ \A f \in {"close_notna", "vol_notna", "amount_notna"} :
          ScoreGE(CompletenessOf(x, f), CompletenessOf(y, f))
    /\ ContinuityScore(x.max_gap_days) >= ContinuityScore(y.max_gap_days)
    /\ FreshnessScore(x.days_since_last_update)
          >= FreshnessScore(y.days_since_last_update)

\* the metrics of x are at least as good as those of y
RawBetter(x, y) ==
    /\ ScoreGE(RateOf(x), RateOf(y))
    /\ \A f \in {"close_notna", "vol_notna", "amount_notna"} :
          ScoreGE(CompletenessOf(x, f), CompletenessOf(y, f))
    /\ x.max_gap_days <= y.max_gap_days
    /\ x.days_since_last_update <= y.days_since_last_update

\* C21: when the metrics given to _calculate_quality_score change in a single
\* sub-metric and that sub-metric's score does not drop (coverage_rate or a
\* completeness not lower, max_gap_days or days_since_last_update not higher,
\* across the branch boundaries of both step scores), the composite score
\* does not drop.
C21_ScoringMonotone ==
    Rescored =>
        ((SubScoresGE(scoring.m, scoring.before.m)
            \/ RawBetter(scoring.m, scoring.before.m))
         => scoring.score >= scoring.before.score)

C21_Witness ==
    /\ Rescored
    /\ scoring.before.m.max_gap_days = 31
    /\ scoring.m.max_gap_days = 30
    /\ scoring.score > scoring.before.score

\* the instrument of scenario A: as many rows as the window has business
\* days (120), every one with a close
ScenarioA(e) ==
    /\ e.m.available_days = ScenarioRows
    /\ e.m.target_days_count = ScenarioRows
    /\ e.m.close_notna = e.m.available_days

\* C23: scenario A, an instrument with 120 rows fully covering a
\* 120-business-day window and a close on every row, is included in the
\* curated universe with a composite score of at least 80, whatever its
\* volume and amount completeness and the age of its last observation.
C23_ScenarioAIncluded ==
    ByScript =>
        \A i \in 1..Len(ScoredRows) :
            ScenarioA(ScoredRows[i]) =>
                /\ ScoredRows[i].code \in CodesIn(curated.pass.selected)
                /\ ScoreGE(ScoredRows[i].quality_score, Score(80, 1))

\* the step scores as the claim gives them
StepScore(x, top) ==
    CASE x <= top -> 100
      [] x > top /\ x <= 7 -> 80
      [] x > 7 /\ x <= 30 -> 60
      [] x > 30 /\ x < 60 -> 60 - x
      [] OTHER -> 0

\* 0.30*coverage_score + 0.25*close_score + 0.15*vol_score + 0.15*amount_score
\* + 0.10*continuity_score + 0.05*freshness_score, in hundredths, as a fraction
WeightedSum(m) ==
    LET cov == CoverageOf(m)
        a == m.available_days
    IN  Score(3000 * cov.num * a
                + (2500 * m.close_notna + 1500 * m.vol_notna
                      + 1500 * m.amount_notna) * cov.den
                + (10 * StepScore(m.max_gap_days, 0)
                      + 5 * StepScore(m.days_since_last_update, 3)) * cov.den * a,
              cov.den * a)

\* s is x rounded to a whole number
IsRounded(s, x) ==
    /\ 2 * (s * x.den - x.num) <= x.den
    /\ 2 * (x.num - s * x.den) <= x.den

ScoreCalled == scoring.ncalls > 0

\* C24: for every metrics value _calculate_quality_score returns the weighted
\* sum 0.30/0.25/0.15/0.15/0.10/0.05 of the coverage, close, volume, amount,
\* continuity and freshness scores rounded to two decimals, with the
\* coverage score capped at 100 and the two step scores 100/80/60/max(0, 60-x)
\* at the boundaries 0, 7, 30 and 3, 7, 30.
C24_CompositeFormula ==
    /\ ScoreCalled => IsRounded(scoring.score, WeightedSum(scoring.m))
    /\ ByScript =>
          \A i \in 1..Len(ScoredRows) :
              /\ ScoredRows[i].quality_score.den = 100
              /\ IsRounded(ScoredRows[i].quality_score.num,
                           WeightedSum(ScoredRows[i].m))

C24_Witness ==
    /\ ScoreCalled
    /\ scoring.m.max_gap_days = 31
    /\ scoring.m.days_since_last_update = 3
    /\ scoring.m.close_notna = 1
    /\ scoring.m.target_days_count = ScoreRows + 1
    /\ scoring.score > 0

\* the observations of the one partition a scenario pass scores
Observed ==
    QDates(InWindow(curated.files[1].df, curated.pass.th.start_date,
                    curated.pass.th.end_date))

\* the gaps, in calendar days, between chronologically consecutive observations
ConsecutiveGaps ==
    {<<x, y - x>> : <<x, y>> \in
        {p \in Observed \X Observed :
            p[1] < p[2] /\ \A z \in Observed : ~(p[1] < z /\ z < p[2])}}

LargestGap ==
    CHOOSE g \in {p[2] : p \in ConsecutiveGaps} :
        \A p \in ConsecutiveGaps : p[2] <= g

OnePartitionScored ==
    /\ ByScript
    /\ Len(curated.files) = 1
    /\ Len(ScoredRows) = 1
    /\ Cardinality(Observed) >= 2

\* C25: for a series of at least two observations in the window,
\* max_gap_days is the largest gap in calendar days between two consecutive
\* observations, also when every gap is 3 days or less, and gap_count is the
\* number of such gaps that exceed 3 days.
C25_MaxGapIsLargestGap ==
    OnePartitionScored =>
        /\ ScoredRows[1].m.max_gap_days = LargestGap
        /\ ScoredRows[1].m.gap_count
              = Cardinality({p \in ConsecutiveGaps : p[2] > 3})

-----------------------------------------------------------------------------
(* Properties of the cached fetch *)

FetchCalled == fetching.from # "none"

\* what the cache check returns for the call's instrument and request
CacheAnswer ==
    CheckExistingData(fs[FlatPath(fetching.code)], fetching.rq,
                      fetching.rq.today).ret

\* C28: fetch_daily_with_cache calls fetch_daily iff force_refresh is set or
\* the cache check does not return HIT; on a HIT without force_refresh it
\* returns exactly the frame the check returned and fetches nothing; with
\* force_refresh it never consults the cache.
C28_FetchIffNoUsableCache ==
    FetchCalled =>
        /\ fetching.fetch_calls > 0
              <=> (fetching.force_refresh \/ CacheAnswer = EmptyFrame)
        /\ fetching.fetch_calls \in {0, 1}
        /\ (~fetching.force_refresh /\ CacheAnswer # EmptyFrame) =>
              /\ fetching.ret = CacheAnswer
              /\ fetching.ret = chk.ret
              /\ fetching.from = "cache"
        /\ fetching.force_refresh => (~fetching.checked /\ chk = NoCheck)

C28_Witness ==
    /\ FetchCalled
    /\ ~fetching.force_refresh
    /\ fetching.rq.hasStart /\ ~fetching.rq.hasEnd
    /\ fetching.from = "cache"
    /\ Len(fetching.ret) >= MinRows
    /\ fetching.fetch_calls = 0

-----------------------------------------------------------------------------
(* Properties of a curation pass as a function of the store *)

\* the partition files enumerated in another order
Reordered(p) == [i \in 1..Len(curated.files) |-> curated.files[p[i]]]

\* the pass that was made, over another enumeration of the same files
PassOver(files) ==
    IF ByScript
    THEN GenerateByScript(files, UniverseCodes(curated.universe), curated.pass.th,
                          curated.now)
    ELSE GenerateByFilter("UniverseFilter", files, UniverseCodes(curated.universe),
                          curated.pass.th)

\* the same instruments scored with the same metrics, the same selected list
SameResult(a, b) ==
    /\ {a.scan.scores[i] : i \in 1..Len(a.scan.scores)}
          = {b.scan.scores[i] : i \in 1..Len(b.scan.scores)}
    /\ a.selected = b.selected

\* C29: the result of a curation pass depends on the stored partitions, the
\* window and the thresholds only: a pass that enumerates the same partition
\* files in another order scores the same instruments with the same metrics
\* and selects the same list in the same order, also when an instrument has
\* several partitions and when instruments tie at the truncation boundary.
C29_EnumerationOrderIrrelevant ==
    (ByScript \/ ByFilter) =>
        \A p \in Permutations(1..Len(curated.files)) :
            SameResult(PassOver(Reordered(p)), curated.pass)

\* the UniverseFilter configuration that corresponds to the script's
\* thresholds: same window, minimum coverage, minimum history days, close
\* completeness 0.8 and size cap
CorrespondingConfig(th) ==
    [start_date |-> th.start_date, end_date |-> th.end_date,
     min_coverage_rate |-> th.min_coverage_rate,
     min_close_coverage |-> MinClosePct,
     min_trading_days |-> th.min_history_days,
     max_universe_size |-> th.max_assets,
     auto_update_days |-> curated.config.auto_update_days]

\* the script's own quality-score threshold, which has no counterpart in
\* UniverseFilter, excludes no scored instrument
ScoreThresholdIdle ==
    \A i \in 1..Len(ScoredRows) :
        ScoreGE(ScoredRows[i].quality_score,
                Score(curated.pass.th.min_quality_score, 1))

FilterSelection ==
    GenerateByFilter("UniverseFilter", curated.files,
                     UniverseCodes(curated.universe),
                     CorrespondingConfig(curated.pass.th)).selected

\* C30: over the same stored partitions and window, with corresponding
\* thresholds and the same size cap, UniverseFilter.filter_high_quality_universe
\* and DataQualityFilter.generate_high_quality_universe select the same
\* instruments in the same order.
C30_ImplementationsAgree ==
    (ByScript /\ ~Raised /\ curated.pass.th.max_assets >= 1 /\ ScoreThresholdIdle) =>
        TsCodes(curated.pass.selected) = TsCodes(FilterSelection)

====
